---------------------------- MODULE Spec2Model ----------------------------
(***************************************************************************)
(* A model of package ilock (src/ilock.go): the intention lock Mutex, its  *)
(* packed uint64 state word, the four register functions and the four      *)
(* Lock / Unlock pairs.                                                    *)
(*                                                                         *)
(* A uint64 is a tuple of four 16-bit limbs, least significant first, so   *)
(* that shifts, masks, carries and wrap-around behave as they do on the    *)
(* machine word.                                                           *)
(***************************************************************************)
EXTENDS Integers, Sequences, FiniteSets, TLC

(***************************************************************************)
(* Bounds of the model.                                                    *)
(***************************************************************************)
\* goroutines contending on the lock in the concurrent specification
NumThreads == 2
\* direct calls made in the sequential specification
MaxCalls == 2
\* goroutines of the scenarios in which each goroutine asks for one mode
RoleThreads == 3
\* readers and writers started by the drain test (the test has 5 and 5)
DrainReaders == 2
DrainWriters == 2
\* instances on the branch of the handler test (the test has 10)
ChainLen == 2
\* xHandler runs in one execution of the handler test
MaxWrites == 2

(***************************************************************************)
(* uint64 arithmetic on four 16-bit limbs.                                 *)
(***************************************************************************)
LimbBase == 2^16
LimbMax == LimbBase - 1
Limbs == 1..4

RECURSIVE BitAnd(_, _)
BitAnd(a, b) ==
  IF a = 0 \/ b = 0 THEN 0
  ELSE (a % 2) * (b % 2) + 2 * BitAnd(a \div 2, b \div 2)

RECURSIVE BitOr(_, _)
BitOr(a, b) ==
  IF a = 0 THEN b
  ELSE IF b = 0 THEN a
  ELSE (IF a % 2 = 1 \/ b % 2 = 1 THEN 1 ELSE 0) + 2 * BitOr(a \div 2, b \div 2)

And64(v, w) == [i \in Limbs |-> BitAnd(v[i], w[i])]
Or64(v, w) == [i \in Limbs |-> BitOr(v[i], w[i])]
Not64(w) == [i \in Limbs |-> LimbMax - w[i]]

\* w << off and w >> off for an offset that is a multiple of 16
Shl64(w, off) ==
  LET k == off \div 16 IN [i \in Limbs |-> IF i - k >= 1 THEN w[i - k] ELSE 0]
Shr64(w, off) ==
  LET k == off \div 16 IN [i \in Limbs |-> IF i + k <= 4 THEN w[i + k] ELSE 0]

\* w + 1 and w - 1 modulo 2^64
Inc64(w) ==
  LET c1 == w[1] = LimbMax
      c2 == c1 /\ w[2] = LimbMax
      c3 == c2 /\ w[3] = LimbMax
  IN << (w[1] + 1) % LimbBase,
        IF c1 THEN (w[2] + 1) % LimbBase ELSE w[2],
        IF c2 THEN (w[3] + 1) % LimbBase ELSE w[3],
        IF c3 THEN (w[4] + 1) % LimbBase ELSE w[4] >>
Dec64(w) ==
  LET b1 == w[1] = 0
      b2 == b1 /\ w[2] = 0
      b3 == b2 /\ w[3] = 0
  IN << (w[1] + LimbMax) % LimbBase,
        IF b1 THEN (w[2] + LimbMax) % LimbBase ELSE w[2],
        IF b2 THEN (w[3] + LimbMax) % LimbBase ELSE w[3],
        IF b3 THEN (w[4] + LimbMax) % LimbBase ELSE w[4] >>

Zero64 == <<0, 0, 0, 0>>
One64 == <<1, 0, 0, 0>>
AllOnes64 == <<LimbMax, LimbMax, LimbMax, LimbMax>>
\* the uint64 with value n, for 0 <= n < 2^16
U64(n) == <<n, 0, 0, 0>>

(***************************************************************************)
(* The constants of the state word (ilock.go 134-146).                     *)
(***************************************************************************)
xOffset == 0
xMask == Dec64(Shl64(One64, 16))
sOffset == 16
\* an S mask that also covers the X field
sMask_overlap == Dec64(Shl64(One64, 32))
sMask == And64(Dec64(Shl64(One64, 32)), Not64(Dec64(Shl64(One64, 16))))
isOffset == 32
isMask == And64(Dec64(Shl64(One64, 48)), Not64(Dec64(Shl64(One64, 32))))
ixOffset == 48
ixMask == And64(AllOnes64, Not64(Dec64(Shl64(One64, 48))))
maxHolders == 65535

(***************************************************************************)
(* extract / set / compatableWith for each of the four modes.              *)
(***************************************************************************)
extractX(state) == Shr64(And64(state, xMask), xOffset)
setX(state, val) == Or64(And64(state, Not64(xMask)), Shl64(val, xOffset))

extractS(state) == Shr64(And64(state, sMask), sOffset)
\* a setS that does not clear the field first
setS_noClear(state, val) == Or64(state, Shl64(val, sOffset))
setS(state, val) == Or64(And64(state, Not64(sMask)), Shl64(val, sOffset))

extractIX(state) == Shr64(And64(state, ixMask), ixOffset)
setIX(state, val) == Or64(And64(state, Not64(ixMask)), Shl64(val, ixOffset))

extractIS(state) == Shr64(And64(state, isMask), isOffset)
setIS(state, val) == Or64(And64(state, Not64(isMask)), Shl64(val, isOffset))

compatableWithX_noX(state) == And64(state, Not64(xMask)) = Zero64
compatableWithX(state) == state = Zero64

compatableWithS_noIX(state) == extractX(state) = Zero64
compatableWithS_noIS(state) ==
  extractX(state) = Zero64 /\ extractIX(state) = Zero64 /\ extractIS(state) = Zero64
compatableWithS(state) == extractX(state) = Zero64 /\ extractIX(state) = Zero64

\* an IXLock that lets in one writer at a time
compatableWithIX_noIX(state) ==
  extractX(state) = Zero64 /\ extractS(state) = Zero64 /\ extractIX(state) = Zero64
compatableWithIX_noS(state) == extractX(state) = Zero64
compatableWithIX(state) == extractX(state) = Zero64 /\ extractS(state) = Zero64

compatableWithIS_always(state) == TRUE
compatableWithIS_asS(state) == extractX(state) = Zero64 /\ extractIX(state) = Zero64
compatableWithIS(state) == extractX(state) = Zero64

Modes == {"X", "S", "IX", "IS"}

\* the function of mode M: the four Lock, Unlock and register functions
\* differ only in which extract / set / compatableWith they call
extract(M, state) ==
  CASE M = "X" -> extractX(state)
    [] M = "S" -> extractS(state)
    [] M = "IX" -> extractIX(state)
    [] M = "IS" -> extractIS(state)
set(M, state, val) ==
  CASE M = "X" -> setX(state, val)
    [] M = "S" -> setS(state, val)
    [] M = "IX" -> setIX(state, val)
    [] M = "IS" -> setIS(state, val)
compatableWith(M, state) ==
  CASE M = "X" -> compatableWithX(state)
    [] M = "S" -> compatableWithS(state)
    [] M = "IX" -> compatableWithIX(state)
    [] M = "IS" -> compatableWithIS(state)

\* a registerM that adds 1 to the whole word, whatever the mode
registerNewState_wholeWord(M, state) == Inc64(state)
\* newState of registerM: setM(state, extractM(state)+1)
registerNewState(M, state) == set(M, state, Inc64(extract(M, state)))
\* val and newState of MUnlock: val = extractM(state) - 1; setM(state, val)
unlockVal(M, state) == Dec64(extract(M, state))
\* an MUnlock that clears the counter instead of lowering it by one
unlockNewState_clear(M, state) == set(M, state, Zero64)
unlockNewState(M, state) == set(M, state, unlockVal(M, state))

\* the four counters of a word as numbers
cntX(w) == extractX(w)[1]
cntS(w) == extractS(w)[1]
cntIX(w) == extractIX(w)[1]
cntIS(w) == extractIS(w)[1]
cnt(M, w) == extract(M, w)[1]

(***************************************************************************)
(* State.                                                                  *)
(***************************************************************************)
VARIABLES
  state,    \* state[m]: Mutex.state of instance m
  mtx,      \* mtx[m]: the goroutine that holds Mutex.mtx of instance m, or NoThread
  waiters,  \* waiters[m]: the goroutines on the notify list of Mutex.c
  pc,       \* pc[t]: where goroutine t is in its Lock or Unlock call
  mode,     \* mode[t]: the mode of the call goroutine t is in or of the lock it holds
  tgt,      \* tgt[t]: the instance that call is on
  st,       \* st[t]: the local `state` a CAS loop of t loaded
  waited,   \* waited[t]: the current Lock call of t has called m.c.Wait()
  last,     \* the last direct call of the sequential specification
  calls,    \* number of direct calls made in the sequential specification
  coex,     \* history: how many of CoexCases have been seen, in their order
  prog,     \* prog[t]: the handler goroutine t runs, its target node and where it is
  values,   \* values[i]: the array the handlers' locks guard
  parent,   \* parent[m]: the instance above instance m on its path (0 at the root)
  writes,   \* xHandler runs started so far
  roles     \* roles[t]: the modes goroutine t asks for in the scenario specification

\* the state of the test programs that drive the lock
harness == <<prog, values, parent, writes, roles>>

vars == <<state, mtx, waiters, pc, mode, tgt, st, waited, last, calls, coex, harness>>

\* the goroutines of the specification
Threads == DOMAIN pc
\* a goroutine that runs no handler
NoProg == [hand |-> "none", node |-> 1, idx |-> 1, phase |-> "none"]
NoThread == 0
\* mode[t] of a goroutine that is in no call and holds nothing
NoMode == "none"
NoLast == [op |-> "none", mode |-> "X", prev |-> Zero64, ret |-> TRUE]

\* New(): a zero Mutex, m.c = sync.NewCond(&m.mtx)
New == [state |-> Zero64, mtx |-> NoThread, waiters |-> {}]

Init ==
  /\ state = [m \in {1} |-> New.state]
  /\ mtx = [m \in {1} |-> New.mtx]
  /\ waiters = [m \in {1} |-> New.waiters]
  /\ pc = [t \in 1..NumThreads |-> "idle"]
  /\ mode = [t \in 1..NumThreads |-> NoMode]
  /\ tgt = [t \in 1..NumThreads |-> 1]
  /\ st = [t \in 1..NumThreads |-> Zero64]
  /\ waited = [t \in 1..NumThreads |-> FALSE]
  /\ last = NoLast
  /\ calls = 0
  /\ coex = 0
  /\ prog = [t \in 1..NumThreads |-> NoProg]
  /\ values = <<>>
  /\ parent = [m \in {1} |-> 0]
  /\ writes = 0
  /\ roles = [t \in 1..NumThreads |-> Modes]

Mutexes == DOMAIN state

(***************************************************************************)
(* MLock (ilock.go 271-281, 306-316, 341-351, 376-386).                    *)
(***************************************************************************)
\* m.mtx.Lock() of a goroutine that calls MLock on instance m
LockMtx(t, m, M) ==
  /\ pc[t] = "idle"
  /\ mtx[m] = NoThread
  /\ mtx' = [mtx EXCEPT ![m] = t]
  /\ pc' = [pc EXCEPT ![t] = "check"]
  /\ mode' = [mode EXCEPT ![t] = M]
  /\ tgt' = [tgt EXCEPT ![t] = m]
  /\ waited' = [waited EXCEPT ![t] = FALSE]
  /\ UNCHANGED <<state, waiters, st, last, calls, coex, harness>>

\* a loop that calls m.c.Wait() once before it looks at the word
LockCheck_waitFirst(t) ==
  /\ pc[t] = "check"
  /\ pc' = [pc EXCEPT ![t] =
              IF waited[t] /\ compatableWith(mode[t], state[tgt[t]])
                THEN "reg_load" ELSE "wait"]
  /\ UNCHANGED <<state, mtx, waiters, mode, tgt, st, waited, last, calls, coex, harness>>

\* a check that favours writers: no other mode gets in while an XLock waits
LockCheck_writerFirst(t) ==
  /\ pc[t] = "check"
  /\ pc' = [pc EXCEPT ![t] =
              IF /\ compatableWith(mode[t], state[tgt[t]])
                 /\ mode[t] = "X" \/ \A u \in waiters[tgt[t]] : mode[u] # "X"
                THEN "reg_load" ELSE "wait"]
  /\ UNCHANGED <<state, mtx, waiters, mode, tgt, st, waited, last, calls, coex, harness>>

\* an `if` in the place of the `for`: after one Wait the caller registers
\* without looking at the word again
LockCheck_ifNotLoop(t) ==
  /\ pc[t] = "check"
  /\ pc' = [pc EXCEPT ![t] =
              IF waited[t] \/ compatableWith(mode[t], state[tgt[t]])
                THEN "reg_load" ELSE "wait"]
  /\ UNCHANGED <<state, mtx, waiters, mode, tgt, st, waited, last, calls, coex, harness>>

\* a try-lock: on an incompatible word the call unlocks m.mtx and returns
\* without registering
LockCheck_tryLock(t) ==
  /\ pc[t] = "check"
  /\ IF compatableWith(mode[t], state[tgt[t]])
       THEN /\ pc' = [pc EXCEPT ![t] = "reg_load"]
            /\ UNCHANGED <<mtx, mode>>
       ELSE /\ pc' = [pc EXCEPT ![t] = "idle"]
            /\ mtx' = [mtx EXCEPT ![tgt[t]] = NoThread]
            /\ mode' = [mode EXCEPT ![t] = NoMode]
  /\ UNCHANGED <<state, waiters, tgt, st, waited, last, calls, coex, harness>>

\* for !compatableWithM(atomic.LoadUint64(&m.state)) { ... }
LockCheck(t) ==
  /\ pc[t] = "check"
  /\ pc' = [pc EXCEPT ![t] =
              IF compatableWith(mode[t], state[tgt[t]]) THEN "reg_load" ELSE "wait"]
  /\ UNCHANGED <<state, mtx, waiters, mode, tgt, st, waited, last, calls, coex, harness>>

\* a wait that keeps m.mtx locked while the goroutine is blocked
CondWait_keepsMtx(t) ==
  /\ pc[t] = "wait"
  /\ waiters' = [waiters EXCEPT ![tgt[t]] = @ \cup {t}]
  /\ pc' = [pc EXCEPT ![t] = "waiting"]
  /\ waited' = [waited EXCEPT ![t] = TRUE]
  /\ UNCHANGED <<state, mtx, mode, tgt, st, last, calls, coex, harness>>

\* m.c.Wait(): the goroutine joins the notify list and unlocks m.mtx
CondWait(t) ==
  /\ pc[t] = "wait"
  /\ waiters' = [waiters EXCEPT ![tgt[t]] = @ \cup {t}]
  /\ mtx' = [mtx EXCEPT ![tgt[t]] = NoThread]
  /\ pc' = [pc EXCEPT ![t] = "waiting"]
  /\ waited' = [waited EXCEPT ![t] = TRUE]
  /\ UNCHANGED <<state, mode, tgt, st, last, calls, coex, harness>>

\* m.c.Wait() returns: the notified goroutine locks m.mtx again
CondWake(t) ==
  /\ pc[t] = "woken"
  /\ mtx[tgt[t]] = NoThread
  /\ mtx' = [mtx EXCEPT ![tgt[t]] = t]
  /\ pc' = [pc EXCEPT ![t] = "check"]
  /\ UNCHANGED <<state, waiters, mode, tgt, st, waited, last, calls, coex, harness>>

\* registerM: state := atomic.LoadUint64(&m.state)
RegisterLoad(t) ==
  /\ pc[t] = "reg_load"
  /\ st' = [st EXCEPT ![t] = state[tgt[t]]]
  /\ pc' = [pc EXCEPT ![t] = "reg_cas"]
  /\ UNCHANGED <<state, mtx, waiters, mode, tgt, waited, last, calls, coex, harness>>

\* a registerM that stores newState without comparing
RegisterCAS_store(t) ==
  /\ pc[t] = "reg_cas"
  /\ state' = [state EXCEPT ![tgt[t]] = registerNewState(mode[t], st[t])]
  /\ pc' = [pc EXCEPT ![t] = "mtx_unlock"]
  /\ st' = [st EXCEPT ![t] = Zero64]
  /\ UNCHANGED <<mtx, waiters, mode, tgt, waited, last, calls, coex, harness>>

\* registerM: atomic.CompareAndSwapUint64(&m.state, state, newState)
RegisterCAS(t) ==
  /\ pc[t] = "reg_cas"
  /\ IF state[tgt[t]] = st[t]
       THEN /\ state' = [state EXCEPT ![tgt[t]] = registerNewState(mode[t], st[t])]
            /\ pc' = [pc EXCEPT ![t] = "mtx_unlock"]
       ELSE /\ pc' = [pc EXCEPT ![t] = "reg_load"]
            /\ UNCHANGED state
  /\ st' = [st EXCEPT ![t] = Zero64]
  /\ UNCHANGED <<mtx, waiters, mode, tgt, waited, last, calls, coex, harness>>

\* the pairs of modes that two different goroutines, neither of which waited
\* in its Lock call, hold together on one instance once t has returned
HeldTogether(t) ==
  {{mode[t], mode[u]} : u \in
     {v \in Threads \ {t} :
        pc[v] = "held" /\ tgt[v] = tgt[t] /\ ~waited[v] /\ ~waited[t]}}

\* m.mtx.Unlock(): MLock returns
MtxUnlock(t) ==
  /\ pc[t] = "mtx_unlock"
  /\ mtx' = [mtx EXCEPT ![tgt[t]] = NoThread]
  /\ pc' = [pc EXCEPT ![t] = "held"]
  /\ UNCHANGED <<state, waiters, mode, tgt, st, waited, last, calls, harness>>

LockMtxUnlock(t) == MtxUnlock(t) /\ UNCHANGED coex

\* the coexistence cases the history looks for, one after the other
CoexCases == <<{"S", "IS"}, {"IX", "IS"}, {"S"}, {"IX"}>>

\* the same step, with the history of coexisting holders advanced
LockMtxUnlockCoex(t) ==
  /\ MtxUnlock(t)
  /\ coex' = IF coex < Len(CoexCases) /\ CoexCases[coex + 1] \in HeldTogether(t)
               THEN coex + 1 ELSE coex

(***************************************************************************)
(* MUnlock (ilock.go 285-301, 320-336, 355-371, 390-406).                  *)
(***************************************************************************)
\* an MUnlock that begins only when nobody holds m.mtx
UnlockLoad_guarded(t) ==
  /\ pc[t] \in {"held", "unl_load"}
  /\ mtx[tgt[t]] = NoThread
  /\ st' = [st EXCEPT ![t] = state[tgt[t]]]
  /\ pc' = [pc EXCEPT ![t] = "unl_cas"]
  /\ UNCHANGED <<state, mtx, waiters, mode, tgt, waited, last, calls, coex, harness>>

\* state := atomic.LoadUint64(&m.state), by the holder that calls MUnlock
UnlockLoad(t) ==
  /\ pc[t] \in {"held", "unl_load"}
  /\ st' = [st EXCEPT ![t] = state[tgt[t]]]
  /\ pc' = [pc EXCEPT ![t] = "unl_cas"]
  /\ UNCHANGED <<state, mtx, waiters, mode, tgt, waited, last, calls, coex, harness>>

\* an MUnlock that stores newState without comparing
UnlockCAS_store(t) ==
  /\ pc[t] = "unl_cas"
  /\ state' = [state EXCEPT ![tgt[t]] = unlockNewState(mode[t], st[t])]
  /\ IF unlockVal(mode[t], st[t]) = Zero64
       THEN /\ pc' = [pc EXCEPT ![t] = "bcast"]
            /\ UNCHANGED <<mode, waited>>
       ELSE /\ pc' = [pc EXCEPT ![t] = "idle"]
            /\ mode' = [mode EXCEPT ![t] = NoMode]
            /\ waited' = [waited EXCEPT ![t] = FALSE]
  /\ st' = [st EXCEPT ![t] = Zero64]
  /\ UNCHANGED <<mtx, waiters, tgt, last, calls, coex, harness>>

\* atomic.CompareAndSwapUint64(&m.state, state, newState); if val == 0 ...
UnlockCAS(t) ==
  /\ pc[t] = "unl_cas"
  /\ IF state[tgt[t]] = st[t]
       THEN /\ state' = [state EXCEPT ![tgt[t]] = unlockNewState(mode[t], st[t])]
            /\ IF unlockVal(mode[t], st[t]) = Zero64
                 THEN /\ pc' = [pc EXCEPT ![t] = "bcast"]
                      /\ UNCHANGED <<mode, waited>>
                 ELSE /\ pc' = [pc EXCEPT ![t] = "idle"]
                      /\ mode' = [mode EXCEPT ![t] = NoMode]
                      /\ waited' = [waited EXCEPT ![t] = FALSE]
       ELSE /\ pc' = [pc EXCEPT ![t] = "unl_load"]
            /\ UNCHANGED <<state, mode, waited>>
  /\ st' = [st EXCEPT ![t] = Zero64]
  /\ UNCHANGED <<mtx, waiters, tgt, last, calls, coex, harness>>

\* m.c.Signal() in the place of Broadcast: one goroutine of the notify list
\* is made runnable
UnlockBroadcast_signal(t) ==
  /\ pc[t] = "bcast"
  /\ \E w \in SUBSET waiters[tgt[t]] :
       /\ Cardinality(w) = (IF waiters[tgt[t]] = {} THEN 0 ELSE 1)
       /\ waiters' = [waiters EXCEPT ![tgt[t]] = @ \ w]
       /\ pc' = [u \in Threads |->
                   IF u = t THEN "idle" ELSE IF u \in w THEN "woken" ELSE pc[u]]
  /\ mode' = [mode EXCEPT ![t] = NoMode]
  /\ waited' = [waited EXCEPT ![t] = FALSE]
  /\ UNCHANGED <<state, mtx, tgt, st, last, calls, coex, harness>>

\* a Broadcast on one condition variable shared by all instances
UnlockBroadcast_shared(t) ==
  /\ pc[t] = "bcast"
  /\ waiters' = [m \in Mutexes |-> {}]
  /\ pc' = [u \in Threads |->
              IF u = t THEN "idle"
              ELSE IF \E m \in Mutexes : u \in waiters[m] THEN "woken"
              ELSE pc[u]]
  /\ mode' = [mode EXCEPT ![t] = NoMode]
  /\ waited' = [waited EXCEPT ![t] = FALSE]
  /\ UNCHANGED <<state, mtx, tgt, st, last, calls, coex, harness>>

\* m.c.Broadcast(): every goroutine on the notify list is made runnable
UnlockBroadcast(t) ==
  /\ pc[t] = "bcast"
  /\ waiters' = [waiters EXCEPT ![tgt[t]] = {}]
  /\ pc' = [u \in Threads |->
              IF u = t THEN "idle"
              ELSE IF u \in waiters[tgt[t]] THEN "woken"
              ELSE pc[u]]
  /\ mode' = [mode EXCEPT ![t] = NoMode]
  /\ waited' = [waited EXCEPT ![t] = FALSE]
  /\ UNCHANGED <<state, mtx, tgt, st, last, calls, coex, harness>>

Next ==
  \E t \in Threads :
    \/ \E m \in Mutexes, M \in Modes : LockMtx(t, m, M)
    \/ LockCheck(t)
    \/ CondWait(t)
    \/ CondWake(t)
    \/ RegisterLoad(t)
    \/ RegisterCAS(t)
    \/ LockMtxUnlock(t)
    \/ UnlockLoad(t)
    \/ UnlockCAS(t)
    \/ UnlockBroadcast(t)

Spec == Init /\ [][Next]_vars

(***************************************************************************)
(* The concurrent specification with the coexistence history recorded.     *)
(***************************************************************************)
NextCoex ==
  \E t \in Threads :
    \/ \E m \in Mutexes, M \in Modes : LockMtx(t, m, M)
    \/ LockCheck(t)
    \/ CondWait(t)
    \/ CondWake(t)
    \/ RegisterLoad(t)
    \/ RegisterCAS(t)
    \/ LockMtxUnlockCoex(t)
    \/ UnlockLoad(t)
    \/ UnlockCAS(t)
    \/ UnlockBroadcast(t)

SpecCoex == Init /\ [][NextCoex]_vars

(***************************************************************************)
(* The sequential specification: one caller makes direct calls on one      *)
(* instance, as the tests of ilock_test.go do (m.registerS() and then       *)
(* m.registerIX() on a fresh Mutex).                                       *)
(* No other goroutine runs, so every CAS succeeds at its first attempt.    *)
(***************************************************************************)
\* the word whose four counters are x, s, is and ix
encode(x, s, is, ix) ==
  setIX(setIS(setS(setX(Zero64, U64(x)), U64(s)), U64(is)), U64(ix))

\* counter values the initial words are drawn from
SampleCounts == {0, 1, maxHolders}

SeqInit ==
  /\ \E x \in SampleCounts, s \in SampleCounts, is \in SampleCounts, ix \in SampleCounts :
       state = [m \in {1} |-> encode(x, s, is, ix)]
  /\ mtx = [m \in {1} |-> New.mtx]
  /\ waiters = [m \in {1} |-> New.waiters]
  /\ pc = [t \in 1..NumThreads |-> "idle"]
  /\ mode = [t \in 1..NumThreads |-> NoMode]
  /\ tgt = [t \in 1..NumThreads |-> 1]
  /\ st = [t \in 1..NumThreads |-> Zero64]
  /\ waited = [t \in 1..NumThreads |-> FALSE]
  /\ last = NoLast
  /\ calls = 0
  /\ coex = 0
  /\ prog = [t \in 1..NumThreads |-> NoProg]
  /\ values = <<>>
  /\ parent = [m \in {1} |-> 0]
  /\ writes = 0
  /\ roles = [t \in 1..NumThreads |-> Modes]

\* a registerM that answers for the word after its own increment
SeqRegister_retNew(M) ==
  /\ calls < MaxCalls
  /\ state' = [state EXCEPT ![1] = registerNewState(M, state[1])]
  /\ last' = [op |-> "register", mode |-> M, prev |-> state[1],
              ret |-> compatableWith(M, registerNewState(M, state[1])),
              pair |-> (last.op = "register" /\ last.mode = M /\ last.ret),
              base |-> last.prev]
  /\ calls' = calls + 1
  /\ UNCHANGED <<mtx, waiters, pc, mode, tgt, st, waited, coex, harness>>

\* a registerM that registers the caller only on a compatible word
SeqRegister_ifCompatible(M) ==
  /\ calls < MaxCalls
  /\ state' = [state EXCEPT ![1] =
                 IF compatableWith(M, state[1]) THEN registerNewState(M, state[1]) ELSE @]
  /\ last' = [op |-> "register", mode |-> M, prev |-> state[1],
              ret |-> compatableWith(M, state[1]),
              pair |-> (last.op = "register" /\ last.mode = M /\ last.ret),
              base |-> last.prev]
  /\ calls' = calls + 1
  /\ UNCHANGED <<mtx, waiters, pc, mode, tgt, st, waited, coex, harness>>

\* m.registerM() called directly: load, CAS, return compatableWithM(state);
\* pair records that the call before it was the same registerM and returned
\* true, base the word before that call
SeqRegister(M) ==
  /\ calls < MaxCalls
  /\ state' = [state EXCEPT ![1] = registerNewState(M, state[1])]
  /\ last' = [op |-> "register", mode |-> M, prev |-> state[1],
              ret |-> compatableWith(M, state[1]),
              pair |-> (last.op = "register" /\ last.mode = M /\ last.ret),
              base |-> last.prev]
  /\ calls' = calls + 1
  /\ UNCHANGED <<mtx, waiters, pc, mode, tgt, st, waited, coex, harness>>

\* m.MLock() by the only caller: it returns iff the word is compatible
\* (otherwise the caller waits for a Broadcast that nobody is there to make)
SeqLock(M) ==
  /\ calls < MaxCalls
  /\ compatableWith(M, state[1])
  /\ state' = [state EXCEPT ![1] = registerNewState(M, state[1])]
  /\ last' = [op |-> "lock", mode |-> M, prev |-> state[1],
              ret |-> compatableWith(M, state[1])]
  /\ calls' = calls + 1
  /\ UNCHANGED <<mtx, waiters, pc, mode, tgt, st, waited, coex, harness>>

\* m.MUnlock() called directly; ret records whether it called Broadcast,
\* pair that the call before it was the matching MLock, base the word before
\* that call
SeqUnlock(M) ==
  /\ calls < MaxCalls
  /\ state' = [state EXCEPT ![1] = unlockNewState(M, state[1])]
  /\ last' = [op |-> "unlock", mode |-> M, prev |-> state[1],
              ret |-> unlockVal(M, state[1]) = Zero64,
              pair |-> (last.op = "lock" /\ last.mode = M), base |-> last.prev]
  /\ calls' = calls + 1
  /\ UNCHANGED <<mtx, waiters, pc, mode, tgt, st, waited, coex, harness>>

SeqNext ==
  \E M \in Modes :
    \/ SeqRegister(M)
    \/ SeqLock(M)
    \/ SeqUnlock(M)

SeqSpec == SeqInit /\ [][SeqNext]_vars

(***************************************************************************)
(* The compatibility table of the documentation, on the four counters.     *)
(***************************************************************************)
TableCompatible(M, w) ==
  CASE M = "X" -> cntX(w) = 0 /\ cntS(w) = 0 /\ cntIX(w) = 0 /\ cntIS(w) = 0
    [] M = "S" -> cntX(w) = 0 /\ cntIX(w) = 0
    [] M = "IX" -> cntX(w) = 0 /\ cntS(w) = 0
    [] M = "IS" -> cntX(w) = 0

\* t has returned from MLock and has not yet completed the decrement of MUnlock
Holds(t, M) == pc[t] \in {"held", "unl_load", "unl_cas"} /\ mode[t] = M

\* t has called m.c.Wait() and has not been notified
Waiting(t, M) == pc[t] = "waiting" /\ mode[t] = M

(***************************************************************************)
(* Claims.                                                                 *)
(***************************************************************************)

\* C1: on every instance the X counter is 0 or 1, and at most one goroutine
\* holds X, in every reachable state of the paired Lock / Unlock protocol.
C1_XAtMostOne ==
  \A m \in Mutexes :
    /\ cntX(state[m]) \in {0, 1}
    /\ Cardinality({t \in Threads : Holds(t, "X") /\ tgt[t] = m}) <= 1

\* C1 witness: one goroutine holds X while another is blocked in XLock.
C1_Witness ==
  \E t \in Threads, u \in Threads : Holds(t, "X") /\ Waiting(u, "X")

\* C2: whenever the X counter is 1, the S, IS and IX counters are 0.
C2_XExcludesAll ==
  \A m \in Mutexes :
    cntX(state[m]) = 1 =>
      cntS(state[m]) = 0 /\ cntIS(state[m]) = 0 /\ cntIX(state[m]) = 0

\* C2 witness: X is held (counter 1) while a goroutine is blocked in ISLock.
C2_Witness ==
  \E t \in Threads, u \in Threads :
    Holds(t, "X") /\ cntX(state[tgt[t]]) = 1 /\ Waiting(u, "IS")

\* C3: the S counter and the IX counter are never both nonzero.
C3_SExcludesIX ==
  \A m \in Mutexes : ~(cntS(state[m]) > 0 /\ cntIX(state[m]) > 0)

\* C3 witness: S is held while a goroutine is blocked in IXLock.
C3_Witness ==
  \E t \in Threads, u \in Threads :
    Holds(t, "S") /\ cntS(state[tgt[t]]) > 0 /\ Waiting(u, "IX")


\* exactly mode H is held on the word, and no other mode
OnlyHeld(w, H) == cnt(H, w) > 0 /\ \A M \in Modes \ {H} : cnt(M, w) = 0

\* <<requested, held>> for the coexistence cases: S with IS, IX with IS,
\* S with S, IX with IX
CoexPairs ==
  {<<"S", "IS">>, <<"IS", "S">>, <<"IX", "IS">>, <<"IS", "IX">>,
   <<"S", "S">>, <<"IX", "IX">>}

\* C4: a caller whose request is one of the coexisting pairs (S with IS held,
\* IS with S held, IX with IS held, IS with IX held, S with S held, IX with IX
\* held) passes its compatibility check and goes on to register: it does not
\* wait.  That the four coexistences do happen is the witness.
C4_CoexistingNeverBlock ==
  [][\A t \in Threads : \A q \in CoexPairs :
       (/\ pc[t] = "check" /\ pc'[t] # "check"
        /\ mode[t] = q[1]
        /\ OnlyHeld(state[tgt[t]], q[2]))
       => pc'[t] = "reg_load"]_vars

\* C4 witness: one execution has shown S with IS, IX with IS, S with S and
\* IX with IX held together by two goroutines that never waited.
C4_Witness == coex = Len(CoexCases)

\* C5: the compatibility predicates equal the table on the word's counters,
\* and a register call returns the table's verdict on the word it replaced.
C5_TableExact ==
  /\ \A M \in Modes : compatableWith(M, state[1]) = TableCompatible(M, state[1])
  /\ last.op \in {"register", "lock"} =>
       last.ret = TableCompatible(last.mode, last.prev)

\* C5 witness: registerS called on a word with IX held (and X not) returned false.
C5_Witness ==
  /\ last.op = "register" /\ last.mode = "S"
  /\ cntIX(last.prev) > 0 /\ cntX(last.prev) = 0
  /\ last.ret = FALSE

C8_NoLostWakeup ==
  \A t \in Threads :
    (pc[t] = "waiting" /\ TableCompatible(mode[t], state[tgt[t]]))
    => \E u \in Threads \ {t} : pc[u] # "idle"

\* C9 (as claimed): an Unlock of a mode whose counter is zero is rejected and
\* leaves the state word as it was.
C9_RejectDoubleRelease ==
  (last.op = "unlock" /\ cnt(last.mode, last.prev) = 0) => state[1] = last.prev

\* C10 (as claimed): a Lock of a mode whose counter is at maxHolders does not
\* wrap that counter to 0 and changes no other mode's counter.
C10_NoWrapAtCapacity ==
  (last.op = "lock" /\ cnt(last.mode, last.prev) = maxHolders)
  => /\ cnt(last.mode, state[1]) # 0
     /\ \A M \in Modes \ {last.mode} : cnt(M, state[1]) = cnt(M, last.prev)

(***************************************************************************)
(* The handler test (testLocking): goroutines run ixHandler, isHandler,    *)
(* sHandler and xHandler on a branch of instances, mutexes[i] guarding     *)
(* values[i] and what follows it.  Instances and values are numbered from  *)
(* 1 here.  Each handler locks the path from the root to its node, top     *)
(* down, and unlocks it bottom up.                                         *)
(***************************************************************************)
Handlers == {"x", "s", "is", "ix"}

\* the instances from the root down to node n
RECURSIVE PathTo(_)
PathTo(n) == IF parent[n] = 0 THEN <<n>> ELSE Append(PathTo(parent[n]), n)

\* an sHandler that takes ISLock on its own node too
ModeAt_sAsIS(h, i, len) ==
  CASE h = "x"  -> IF i < len THEN "IX" ELSE "X"
    [] h = "s"  -> "IS"
    [] h = "is" -> "IS"
    [] h = "ix" -> "IX"

\* the mode handler h asks for on the i-th instance of a path of len instances
ModeAt(h, i, len) ==
  CASE h = "x"  -> IF i < len THEN "IX" ELSE "X"
    [] h = "s"  -> IF i < len THEN "IS" ELSE "S"
    [] h = "is" -> "IS"
    [] h = "ix" -> "IX"

\* the path of the handler goroutine t runs
Path(t) == PathTo(prog[t].node)

ChainInit ==
  /\ state = [m \in 1..ChainLen |-> New.state]
  /\ mtx = [m \in 1..ChainLen |-> New.mtx]
  /\ waiters = [m \in 1..ChainLen |-> New.waiters]
  /\ pc = [t \in 1..NumThreads |-> "idle"]
  /\ mode = [t \in 1..NumThreads |-> NoMode]
  /\ tgt = [t \in 1..NumThreads |-> 1]
  /\ st = [t \in 1..NumThreads |-> Zero64]
  /\ waited = [t \in 1..NumThreads |-> FALSE]
  /\ last = NoLast
  /\ calls = 0
  /\ coex = 0
  /\ prog = [t \in 1..NumThreads |-> NoProg]
  /\ values = [i \in 1..ChainLen |-> 0]
  /\ parent = [m \in 1..ChainLen |-> m - 1]
  /\ writes = 0
  /\ roles = [t \in 1..NumThreads |-> Modes]

\* go hHandler(offset, delay)
HandlerStart(t, h, n) ==
  /\ prog[t].hand = "none"
  /\ pc[t] = "idle"
  /\ h = "x" => writes < MaxWrites
  /\ prog' = [prog EXCEPT ![t] = [hand |-> h, node |-> n, idx |-> 1, phase |-> "acq"]]
  /\ writes' = IF h = "x" THEN writes + 1 ELSE writes
  /\ UNCHANGED <<state, mtx, waiters, pc, mode, tgt, st, waited, last, calls, coex,
                 values, parent, roles>>

\* mutexes[i].MLock() of the locking loop: the call begins
HandlerLock(t) ==
  /\ prog[t].phase = "acq"
  /\ LockMtx(t, Path(t)[prog[t].idx], ModeAt(prog[t].hand, prog[t].idx, Len(Path(t))))

\* mutexes[i].MLock() has returned: the loop goes on to the next instance, or
\* the path is complete (xHandler and sHandler inspect the values, isHandler
\* and ixHandler sleep and then unlock)
HandlerLocked(t) ==
  /\ prog[t].phase = "acq"
  /\ pc[t] = "held"
  /\ IF prog[t].idx < Len(Path(t))
       THEN /\ prog' = [prog EXCEPT ![t].idx = @ + 1]
            /\ pc' = [pc EXCEPT ![t] = "idle"]
            /\ mode' = [mode EXCEPT ![t] = NoMode]
            /\ waited' = [waited EXCEPT ![t] = FALSE]
       ELSE /\ prog' = [prog EXCEPT ![t].phase =
                          IF prog[t].hand \in {"x", "s"} THEN "crit" ELSE "rel"]
            /\ UNCHANGED <<pc, mode, waited>>
  /\ UNCHANGED <<state, mtx, waiters, tgt, st, last, calls, coex, values, parent, writes, roles>>

\* testNonDecreasing(t, values[:]) of xHandler and sHandler, between the last
\* Lock and the first write or Unlock
HandlerInspect(t) ==
  /\ prog[t].phase = "crit"
  /\ prog' = [prog EXCEPT ![t] =
                IF prog[t].hand = "x"
                  THEN [@ EXCEPT !.phase = "write", !.idx = prog[t].node]
                  ELSE [@ EXCEPT !.phase = "rel"]]
  /\ UNCHANGED <<state, mtx, waiters, pc, mode, tgt, st, waited, last, calls, coex,
                 values, parent, writes, roles>>

\* the values instance n is responsible for: its own and those of the
\* instances below it (on the branch of the test, values[n] and all that follow)
Below(n) == {i \in DOMAIN values : \E k \in 1..Len(PathTo(i)) : PathTo(i)[k] = n}

\* for i := offset; i < len(values); i++ { values[i]++ }: one iteration
WriterIncrement(t) ==
  /\ prog[t].phase = "write"
  /\ values' = [values EXCEPT ![prog[t].idx] = @ + 1]
  /\ prog' = [prog EXCEPT ![t] =
                IF \E i \in Below(prog[t].node) : i > prog[t].idx
                  THEN [@ EXCEPT !.idx =
                          CHOOSE i \in Below(prog[t].node) :
                            /\ i > prog[t].idx
                            /\ \A j \in Below(prog[t].node) : j > prog[t].idx => i <= j]
                  ELSE [@ EXCEPT !.phase = "rel", !.idx = Len(Path(t))]]
  /\ UNCHANGED <<state, mtx, waiters, pc, mode, tgt, st, waited, last, calls, coex,
                 parent, writes, roles>>

\* mutexes[i].MUnlock() of the unlocking loop: the call begins
HandlerUnlock(t) ==
  /\ prog[t].phase = "rel"
  /\ UnlockLoad(t)

\* mutexes[i].MUnlock() has returned: the loop goes on to the instance above,
\* or the handler is done
HandlerUnlocked(t) ==
  /\ prog[t].phase = "rel"
  /\ pc[t] = "idle"
  /\ IF prog[t].idx > 1
       THEN /\ prog' = [prog EXCEPT ![t].idx = @ - 1]
            /\ pc' = [pc EXCEPT ![t] = "held"]
            /\ mode' = [mode EXCEPT ![t] =
                          ModeAt(prog[t].hand, prog[t].idx - 1, Len(Path(t)))]
            /\ tgt' = [tgt EXCEPT ![t] = Path(t)[prog[t].idx - 1]]
       ELSE /\ prog' = [prog EXCEPT ![t] = NoProg]
            /\ tgt' = [tgt EXCEPT ![t] = 1]
            /\ UNCHANGED <<pc, mode>>
  /\ UNCHANGED <<state, mtx, waiters, st, waited, last, calls, coex, values, parent, writes, roles>>

ChainNext ==
  \E t \in Threads :
    \/ \E h \in Handlers, n \in Mutexes : HandlerStart(t, h, n)
    \/ HandlerLock(t)
    \/ LockCheck(t)
    \/ CondWait(t)
    \/ CondWake(t)
    \/ RegisterLoad(t)
    \/ RegisterCAS(t)
    \/ LockMtxUnlock(t)
    \/ HandlerLocked(t)
    \/ HandlerInspect(t)
    \/ WriterIncrement(t)
    \/ HandlerUnlock(t)
    \/ UnlockCAS(t)
    \/ UnlockBroadcast(t)
    \/ HandlerUnlocked(t)

ChainSpec == ChainInit /\ [][ChainNext]_vars

\* testNonDecreasing: values[i-1] <= values[i] for every i
NonDecreasing(v) == \A i \in 2..Len(v) : v[i - 1] <= v[i]

\* every lock of t's path is held: the last MLock has returned and no MUnlock
\* has decremented yet
PathComplete(t) ==
  \/ prog[t].phase \in {"crit", "write"}
  \/ /\ prog[t].phase \in {"acq", "rel"}
     /\ prog[t].idx = Len(Path(t))
     /\ pc[t] \in {"held", "unl_load", "unl_cas"}

\* t holds XLock on the root of the branch and is not in its own write loop:
\* what it reads of values is a sample taken under mutexes[0].XLock()
SamplesUnderRootX(t) ==
  /\ prog[t].hand = "x" /\ parent[prog[t].node] = 0
  /\ PathComplete(t)
  /\ prog[t].phase # "write"

PathHolder(t) == prog[t].hand \in {"s", "x"} /\ PathComplete(t)

\* t is between the return of XLock on its node and the decrement of the
\* matching XUnlock
InXSection(t) == prog[t].hand = "x" /\ PathComplete(t)

\* C12: while a goroutine holds a complete read path (IS above, S on the node)
\* or write path (IX above, X on the node), no other goroutine is between XLock
\* on its node and the matching XUnlock; so no writer's critical section
\* overlaps another writer's or a reader's, and the values are nondecreasing
\* whenever sHandler or xHandler inspects them.
C12_HierarchicalExclusion ==
  /\ \A t \in Threads, u \in Threads :
       (t # u /\ PathHolder(t)) => ~InXSection(u)
  /\ \A t \in Threads : prog[t].phase = "crit" => NonDecreasing(values)

\* C12 witness: sHandler inspects values that have been written, holding its
\* path to the deepest node, while an xHandler is blocked on the branch.
C12_Witness ==
  \E t \in Threads, u \in Threads :
    /\ prog[t].hand = "s" /\ prog[t].phase = "crit" /\ prog[t].node = Len(values)
    /\ values[Len(values)] > 0
    /\ prog[u].hand = "x" /\ pc[u] = "waiting"

(***************************************************************************)
(* The same handlers on a tree: a root and two sibling children (README,   *)
(* "you can take an exclusive lock on node.leftSubtree so long as nobody   *)
(* else has an exclusive lock on node").                                   *)
(***************************************************************************)
\* the instance above each instance: 1 is the root, 2 and 3 are its children
TreeParent == <<0, 1, 1>>

TreeInit ==
  /\ state = [m \in DOMAIN TreeParent |-> New.state]
  /\ mtx = [m \in DOMAIN TreeParent |-> New.mtx]
  /\ waiters = [m \in DOMAIN TreeParent |-> New.waiters]
  /\ pc = [t \in 1..NumThreads |-> "idle"]
  /\ mode = [t \in 1..NumThreads |-> NoMode]
  /\ tgt = [t \in 1..NumThreads |-> 1]
  /\ st = [t \in 1..NumThreads |-> Zero64]
  /\ waited = [t \in 1..NumThreads |-> FALSE]
  /\ last = NoLast
  /\ calls = 0
  /\ coex = 0
  /\ prog = [t \in 1..NumThreads |-> NoProg]
  /\ values = [i \in DOMAIN TreeParent |-> 0]
  /\ parent = TreeParent
  /\ writes = 0
  /\ roles = [t \in 1..NumThreads |-> Modes]

TreeSpec == TreeInit /\ [][ChainNext]_vars

\* t and u run xHandler on two different children of one instance
SiblingWriters(t, u) ==
  /\ prog[t].hand = "x" /\ prog[u].hand = "x"
  /\ prog[t].node # prog[u].node
  /\ parent[prog[t].node] # 0
  /\ parent[prog[t].node] = parent[prog[u].node]

\* C13: a writer on one child of the root (IX on the root, X on the child)
\* never makes a writer on the other child wait: while every other goroutine
\* that runs a handler is a writer holding its path to a sibling, each check
\* of the writer's IXLock on the root and XLock on its child passes.  The
\* state with X held on both children is the witness.
C13_SiblingsDoNotBlock ==
  [][\A t \in Threads :
       (/\ pc[t] = "check"
        /\ \E u \in Threads \ {t} : SiblingWriters(t, u) /\ PathComplete(u)
        /\ \A u \in Threads \ {t} :
             prog[u].hand = "none" \/ (SiblingWriters(t, u) /\ PathComplete(u)))
       => pc'[t] # "wait"]_vars

\* C13 witness: two writers hold X on the two children, and IX on the root,
\* at the same time; neither waited on the way.
C13_Witness ==
  \E t \in Threads, u \in Threads :
    /\ SiblingWriters(t, u)
    /\ InXSection(t) /\ InXSection(u)
    /\ cntX(state[prog[t].node]) = 1 /\ cntX(state[prog[u].node]) = 1
    /\ cntIX(state[parent[prog[t].node]]) = 2
    /\ ~waited[t] /\ ~waited[u]

(***************************************************************************)
(* The field functions on their own, as TestExtract*Idempotency calls      *)
(* them: setM on a random word, then on the result.                        *)
(***************************************************************************)
\* 16-bit patterns the limbs of the initial words and the values set are
\* drawn from (0xaaaa among them)
SampleFields == SampleCounts \cup {43690}

SetInit ==
  /\ \E a \in SampleFields, b \in SampleFields, c \in SampleFields, d \in SampleFields :
       state = [m \in {1} |-> <<a, b, c, d>>]
  /\ mtx = [m \in {1} |-> New.mtx]
  /\ waiters = [m \in {1} |-> New.waiters]
  /\ pc = [t \in 1..NumThreads |-> "idle"]
  /\ mode = [t \in 1..NumThreads |-> NoMode]
  /\ tgt = [t \in 1..NumThreads |-> 1]
  /\ st = [t \in 1..NumThreads |-> Zero64]
  /\ waited = [t \in 1..NumThreads |-> FALSE]
  /\ last = NoLast
  /\ calls = 0
  /\ coex = 0
  /\ prog = [t \in 1..NumThreads |-> NoProg]
  /\ values = <<>>
  /\ parent = [m \in {1} |-> 0]
  /\ writes = 0
  /\ roles = [t \in 1..NumThreads |-> Modes]

\* state = setM(state, v); `again` records that the call before this one was
\* the same setM with the same v
SetField(M, v) ==
  /\ calls < MaxCalls
  /\ state' = [state EXCEPT ![1] = set(M, state[1], U64(v))]
  /\ last' = [op |-> "set", mode |-> M, prev |-> state[1], ret |-> TRUE, val |-> v,
              again |-> (last.op = "set" /\ last.mode = M /\ last.val = v)]
  /\ calls' = calls + 1
  /\ UNCHANGED <<mtx, waiters, pc, mode, tgt, st, waited, coex, harness>>

SetNext == \E M \in Modes, v \in SampleFields : SetField(M, v)

SetSpec == SetInit /\ [][SetNext]_vars

\* C14: after setM(state, v) with 0 <= v <= maxHolders the M field decodes to
\* v and the other three fields decode to what they were in state; setM with
\* the same v on the result gives the result again.
C14_FieldIndependence ==
  last.op = "set" =>
    /\ cnt(last.mode, state[1]) = last.val
    /\ \A M \in Modes \ {last.mode} : cnt(M, state[1]) = cnt(M, last.prev)
    /\ last.again => state[1] = last.prev

\* C14 witness: the same value was set twice in a row in a word whose other
\* three fields are all nonzero, two of them full.
C14_Witness ==
  /\ last.op = "set" /\ last.again
  /\ last.mode = "S" /\ last.val = 43690
  /\ cntX(state[1]) = maxHolders /\ cntIS(state[1]) = 1 /\ cntIX(state[1]) = maxHolders

\* C15: New() gives a word with all four counters 0, a free m.mtx and nobody
\* waiting, and a Lock call of any mode whose check reads that word goes on to
\* register: the first acquire does not wait.
C15_NewUnlocked ==
  /\ \A m \in Mutexes :
       /\ \A M \in Modes : cnt(M, state[m]) = 0
       /\ mtx[m] = NoThread /\ waiters[m] = {}
  /\ [][\A t \in Threads :
          (pc[t] = "check" /\ pc'[t] # "check" /\ state[tgt[t]] = New.state)
          => pc'[t] = "reg_load"]_vars

\* C15 witness: the one goroutine that has called a Lock on the new instance
\* (XLock) has returned without waiting; nobody else has left idle.
C15_Witness ==
  \E t \in Threads :
    /\ pc[t] = "held" /\ mode[t] = "X" /\ ~waited[t]
    /\ cntX(state[tgt[t]]) = 1
    /\ \A u \in Threads \ {t} : pc[u] = "idle"

\* t's registerM on instance m in mode M has succeeded and its MUnlock has not
\* yet decremented: t is still inside MLock, about to unlock m.mtx, or holds
Registered(t, m, M) ==
  /\ pc[t] \in {"mtx_unlock", "held", "unl_load", "unl_cas"}
  /\ tgt[t] = m /\ mode[t] = M

\* C16 (as claimed): each counter equals the number of goroutines that have
\* returned from that mode's Lock on the instance and whose Unlock has not yet
\* decremented.
C16_CounterCountsReturned ==
  \A m \in Mutexes : \A M \in Modes :
    cnt(M, state[m]) = Cardinality({t \in Threads : Holds(t, M) /\ tgt[t] = m})

\* C16 (amended): each counter equals the number of goroutines whose registerM
\* has succeeded (inside Lock, before m.mtx is unlocked and Lock returns) and
\* whose Unlock has not yet decremented; goroutines that are checking, waiting
\* or woken are not counted.
C16_CounterCountsRegistered ==
  \A m \in Mutexes : \A M \in Modes :
    cnt(M, state[m]) = Cardinality({t \in Threads : Registered(t, m, M)})

\* C16 witness: the IS counter is 1 for its one holder while a goroutine
\* blocked in XLock is counted nowhere.
C16_Witness ==
  \E t \in Threads, u \in Threads :
    /\ Holds(t, "IS") /\ Waiting(u, "X") /\ tgt[u] = tgt[t]
    /\ cntIS(state[tgt[t]]) = 1 /\ cntX(state[tgt[t]]) = 0

(***************************************************************************)
(* Readers that overlap, and one writer (README: "Currently the lock does  *)
(* not favour writers").  Goroutine 1 calls XLock / XUnlock, the others    *)
(* SLock / SUnlock on one instance, and a reader calls SUnlock only while  *)
(* another reader holds S and is not itself unlocking.  When to call is    *)
(* the callers' choice, so every execution here is one of the lock's; each *)
(* step that can be taken is eventually taken.                             *)
(***************************************************************************)
StarveInit ==
  /\ state = [m \in {1} |-> New.state]
  /\ mtx = [m \in {1} |-> New.mtx]
  /\ waiters = [m \in {1} |-> New.waiters]
  /\ pc = [t \in 1..RoleThreads |-> "idle"]
  /\ mode = [t \in 1..RoleThreads |-> NoMode]
  /\ tgt = [t \in 1..RoleThreads |-> 1]
  /\ st = [t \in 1..RoleThreads |-> Zero64]
  /\ waited = [t \in 1..RoleThreads |-> FALSE]
  /\ last = NoLast
  /\ calls = 0
  /\ coex = 0
  /\ prog = [t \in 1..RoleThreads |-> NoProg]
  /\ values = <<>>
  /\ parent = [m \in {1} |-> 0]
  /\ writes = 0
  /\ roles = [t \in 1..RoleThreads |-> IF t = 1 THEN {"X"} ELSE {"S"}]

\* m.MLock() in the mode of the goroutine's role: the call begins
RoleLock(t) == \E m \in Mutexes, M \in roles[t] : LockMtx(t, m, M)

\* m.SUnlock() called by a reader while another reader holds S, or
\* m.XUnlock() called by the writer: the call begins (or its CAS loop retries)
OverlapUnlock(t) ==
  /\ (pc[t] = "held" /\ mode[t] = "S")
       => \E v \in Threads \ {t} : pc[v] = "held" /\ mode[v] = "S" /\ tgt[v] = tgt[t]
  /\ UnlockLoad(t)

StarveNext ==
  \E t \in Threads :
    \/ RoleLock(t)
    \/ LockCheck(t)
    \/ CondWait(t)
    \/ CondWake(t)
    \/ RegisterLoad(t)
    \/ RegisterCAS(t)
    \/ LockMtxUnlock(t)
    \/ OverlapUnlock(t)
    \/ UnlockCAS(t)
    \/ UnlockBroadcast(t)

StarveSpec == StarveInit /\ [][StarveNext]_vars /\ WF_vars(StarveNext)

\* an XLock caller is blocked in m.c.Wait() while two readers hold S together
OvertakenX ==
  \E u \in Threads, v \in Threads, w \in Threads :
    /\ Waiting(u, "X")
    /\ v # w /\ pc[v] = "held" /\ mode[v] = "S" /\ pc[w] = "held" /\ mode[w] = "S"

\* C17: the lock does not favour writers.  Once an XLock caller is blocked
\* while two readers overlap, then in every execution in which the readers
\* keep overlapping (and every goroutine that can run does run) the S counter
\* stays nonzero, readers go on acquiring S for ever, and the XLock caller
\* stays blocked for ever.
C17_WriterStarves ==
  [](OvertakenX =>
       /\ [](\E u \in Threads : Waiting(u, "X"))
       /\ [](cntS(state[1]) > 0)
       /\ []<>(\E t \in Threads : pc[t] = "mtx_unlock" /\ mode[t] = "S"))

\* C17 witness: an XLock caller is blocked, a reader holds S, and a second
\* reader that took m.mtx after the writer began to wait has registered
\* without waiting (S counter 2): the writer has been overtaken.
C17_Witness ==
  \E u \in Threads, v \in Threads, t \in Threads :
    /\ Waiting(u, "X")
    /\ pc[v] = "held" /\ mode[v] = "S"
    /\ pc[t] = "mtx_unlock" /\ mode[t] = "S" /\ ~waited[t]
    /\ cntS(state[1]) = 2

\* C18 (as claimed): every change of an instance's word, by a Lock and by an
\* Unlock alike, is made by the goroutine that holds the instance's m.mtx, and
\* the word never changes while another goroutine is between its failed
\* compatibility check and its entry into m.c.Wait().
C18_MutationUnderMutex ==
  [][\A m \in Mutexes :
       state'[m] # state[m] =>
         /\ \E t \in Threads : mtx[m] = t /\ pc'[t] # pc[t]
         /\ \A u \in Threads : ~(pc[u] = "wait" /\ tgt[u] = m)]_vars

(***************************************************************************)
(* One reader and the callers it blocks: goroutine 1 calls SLock /         *)
(* SUnlock, goroutine 2 XLock / XUnlock, the others IXLock / IXUnlock, all  *)
(* on one instance.                                                        *)
(***************************************************************************)
WakeInit ==
  /\ state = [m \in {1} |-> New.state]
  /\ mtx = [m \in {1} |-> New.mtx]
  /\ waiters = [m \in {1} |-> New.waiters]
  /\ pc = [t \in 1..RoleThreads |-> "idle"]
  /\ mode = [t \in 1..RoleThreads |-> NoMode]
  /\ tgt = [t \in 1..RoleThreads |-> 1]
  /\ st = [t \in 1..RoleThreads |-> Zero64]
  /\ waited = [t \in 1..RoleThreads |-> FALSE]
  /\ last = NoLast
  /\ calls = 0
  /\ coex = 0
  /\ prog = [t \in 1..RoleThreads |-> NoProg]
  /\ values = <<>>
  /\ parent = [m \in {1} |-> 0]
  /\ writes = 0
  /\ roles = [t \in 1..RoleThreads |->
                IF t = 1 THEN {"S"} ELSE IF t = 2 THEN {"X"} ELSE {"IX"}]

WakeNext ==
  \E t \in Threads :
    \/ RoleLock(t)
    \/ LockCheck(t)
    \/ CondWait(t)
    \/ CondWake(t)
    \/ RegisterLoad(t)
    \/ RegisterCAS(t)
    \/ LockMtxUnlock(t)
    \/ UnlockLoad(t)
    \/ UnlockCAS(t)
    \/ UnlockBroadcast(t)

WakeSpec == WakeInit /\ [][WakeNext]_vars

\* C19: an Unlock whose decrement brings its mode's counter to 0 goes on to
\* Broadcast; the Broadcast empties the notify list and makes every goroutine
\* that was on it runnable; and each of them, once it runs, holds m.mtx again
\* and is back at its own compatibility check.
C19_BroadcastWakesAll ==
  [][\A t \in Threads :
       /\ (pc[t] = "unl_cas" /\ state'[tgt[t]] # state[tgt[t]]
             /\ cnt(mode[t], state'[tgt[t]]) = 0)
          => pc'[t] = "bcast"
       /\ (pc[t] = "bcast" /\ pc'[t] # "bcast")
          => /\ waiters'[tgt[t]] = {}
             /\ \A u \in waiters[tgt[t]] : pc'[u] = "woken"
       /\ (pc[t] = "woken" /\ pc'[t] # "woken")
          => pc'[t] = "check" /\ mtx'[tgt[t]] = t]_vars

\* C19 witness: the last S holder has released (the word is 0) and both the
\* goroutine that waited in XLock and one that waited in IXLock are woken.
C19_Witness ==
  \E t \in Threads, u \in Threads, v \in Threads :
    /\ roles[t] = {"S"} /\ pc[t] = "idle"
    /\ pc[u] = "woken" /\ mode[u] = "X" /\ waited[u]
    /\ pc[v] = "woken" /\ mode[v] = "IX" /\ waited[v]
    /\ state[1] = Zero64

\* t is in MUnlock, or holds and may call it
InUnlock(t) == pc[t] \in {"held", "unl_load", "unl_cas", "bcast"}

\* C20: release never blocks.  A holder's MUnlock can take its next step in
\* every state, whoever holds m.mtx and whoever waits; and its CAS loop goes
\* round again only when the word is no longer the one it loaded, that is,
\* when another goroutine changed it in between.
C20_ReleaseNeverBlocks ==
  /\ [](\A t \in Threads :
          InUnlock(t) => ENABLED (UnlockLoad(t) \/ UnlockCAS(t) \/ UnlockBroadcast(t)))
  /\ [][\A t \in Threads :
          (pc[t] = "unl_cas" /\ pc'[t] = "unl_load") => state[tgt[t]] # st[t]]_vars

\* C20 witness: a holder whose CAS failed is about to retry its MUnlock while
\* another goroutine holds the instance's m.mtx.
C20_Witness ==
  \E t \in Threads, u \in Threads :
    pc[t] = "unl_load" /\ u # t /\ mtx[tgt[t]] = u

(***************************************************************************)
(* Two instances, each from New(), and goroutines that each call one       *)
(* mode's Lock / Unlock on either of them (goroutine 1 S, goroutine 2 X,   *)
(* the others IX).                                                         *)
(***************************************************************************)
\* the two instances, A and B
PairInstances == {1, 2}

PairInit ==
  /\ state = [m \in PairInstances |-> New.state]
  /\ mtx = [m \in PairInstances |-> New.mtx]
  /\ waiters = [m \in PairInstances |-> New.waiters]
  /\ pc = [t \in 1..RoleThreads |-> "idle"]
  /\ mode = [t \in 1..RoleThreads |-> NoMode]
  /\ tgt = [t \in 1..RoleThreads |-> 1]
  /\ st = [t \in 1..RoleThreads |-> Zero64]
  /\ waited = [t \in 1..RoleThreads |-> FALSE]
  /\ last = NoLast
  /\ calls = 0
  /\ coex = 0
  /\ prog = [t \in 1..RoleThreads |-> NoProg]
  /\ values = <<>>
  /\ parent = [m \in PairInstances |-> 0]
  /\ writes = 0
  /\ roles = [t \in 1..RoleThreads |->
                IF t = 1 THEN {"S"} ELSE IF t = 2 THEN {"X"} ELSE {"IX"}]

PairSpec == PairInit /\ [][WakeNext]_vars

\* C21: instances are independent.  A step of a Lock or Unlock on one
\* instance leaves the word, the notify list and the m.mtx of every other
\* instance as they were; no goroutine blocked in a Lock on one instance holds
\* the m.mtx of any instance; and a check passes or fails on the word of its
\* own instance alone.
C21_InstancesIndependent ==
  /\ [](\A u \in Threads : pc[u] \in {"waiting", "woken"} =>
          \A b \in Mutexes : mtx[b] # u)
  /\ [][\A t \in Threads :
          /\ pc'[t] # pc[t] =>
               \A b \in Mutexes \ {tgt'[t]} :
                 state'[b] = state[b] /\ waiters'[b] = waiters[b] /\ mtx'[b] = mtx[b]
          /\ (pc[t] = "check" /\ pc'[t] # "check") =>
               (pc'[t] = "reg_load" <=> TableCompatible(mode[t], state[tgt[t]]))]_vars

\* C21 witness: a goroutine is blocked in XLock on instance 1, where S is
\* held, and another has returned from IXLock on instance 2 without waiting.
C21_Witness ==
  \E t \in Threads, u \in Threads, v \in Threads :
    /\ Holds(t, "S") /\ tgt[t] = 1
    /\ Waiting(u, "X") /\ tgt[u] = 1
    /\ pc[v] = "held" /\ mode[v] = "IX" /\ tgt[v] = 2 /\ ~waited[v]
    /\ cntS(state[1]) = 1 /\ cntIX(state[2]) = 1

\* C22 (as claimed): the chain protocol never leaves an unfinished handler
\* that cannot proceed.  A handler blocked in m.c.Wait() is not left alone:
\* some other goroutine still runs a handler (only a running handler's Unlock
\* can call Broadcast and wake it).
C22_NoStuckHandler ==
  \A u \in Threads :
    (prog[u].hand # "none" /\ pc[u] = "waiting")
    => \E t \in Threads \ {u} : prog[t].hand # "none"

\* C23: when the CAS of registerM succeeds inside MLock, the word it replaces
\* (the one it loaded) satisfies compatableWithM, so registerM returns true;
\* and a caller that has been woken and finds its mode still incompatible
\* goes back to m.c.Wait() without registering.
C23_RegistersOnCompatible ==
  [][\A t \in Threads :
       /\ (pc[t] = "reg_cas" /\ pc'[t] = "mtx_unlock")
          => /\ st[t] = state[tgt[t]]
             /\ compatableWith(mode[t], st[t])
             /\ state'[tgt[t]] = registerNewState(mode[t], st[t])
       /\ (pc[t] = "check" /\ pc'[t] # "check" /\ waited[t]
             /\ ~compatableWith(mode[t], state[tgt[t]]))
          => pc'[t] = "wait" /\ state' = state]_vars

\* C23 witness: an XLock caller that waited and was woken has found S held
\* again and is on its way back into Wait, while the reader that overtook it
\* holds S.
C23_Witness ==
  \E u \in Threads, t \in Threads :
    /\ pc[u] = "wait" /\ waited[u] /\ mode[u] = "X"
    /\ Holds(t, "S") /\ tgt[t] = tgt[u] /\ cntS(state[tgt[u]]) = 1

(***************************************************************************)
(* One writer and readers: goroutine 1 calls XLock / XUnlock, the others   *)
(* SLock / SUnlock or ISLock / ISUnlock, when they choose, on one instance. *)
(***************************************************************************)
BlockInit ==
  /\ state = [m \in {1} |-> New.state]
  /\ mtx = [m \in {1} |-> New.mtx]
  /\ waiters = [m \in {1} |-> New.waiters]
  /\ pc = [t \in 1..RoleThreads |-> "idle"]
  /\ mode = [t \in 1..RoleThreads |-> NoMode]
  /\ tgt = [t \in 1..RoleThreads |-> 1]
  /\ st = [t \in 1..RoleThreads |-> Zero64]
  /\ waited = [t \in 1..RoleThreads |-> FALSE]
  /\ last = NoLast
  /\ calls = 0
  /\ coex = 0
  /\ prog = [t \in 1..RoleThreads |-> NoProg]
  /\ values = <<>>
  /\ parent = [m \in {1} |-> 0]
  /\ writes = 0
  /\ roles = [t \in 1..RoleThreads |-> IF t = 1 THEN {"X"} ELSE {"S", "IS"}]

BlockSpec == BlockInit /\ [][WakeNext]_vars

\* an XLock caller is blocked in m.c.Wait() on instance m
XBlockedOn(m) == \E u \in Threads : Waiting(u, "X") /\ tgt[u] = m

\* C24: a goroutine blocked in a Lock does not hold m.mtx.  While an XLock
\* caller waits, a holder's MUnlock can take its next step, an SLock or ISLock
\* caller can lock m.mtx as soon as no running caller holds it, and if X is not
\* held its check passes and it registers without waiting.
C24_BlockedHoldsNoMutex ==
  /\ [](\A u \in Threads : pc[u] \in {"waiting", "woken"} => mtx[tgt[u]] # u)
  /\ [](\A t \in Threads :
          XBlockedOn(tgt[t]) =>
            /\ InUnlock(t) => ENABLED (UnlockLoad(t) \/ UnlockCAS(t) \/ UnlockBroadcast(t))
            /\ (pc[t] = "idle" /\ \A v \in Threads : pc[v] \in {"idle", "held", "waiting"})
                 => ENABLED LockMtx(t, tgt[t], "S") /\ ENABLED LockMtx(t, tgt[t], "IS"))
  /\ [][\A t \in Threads :
          (/\ XBlockedOn(tgt[t])
           /\ pc[t] = "check" /\ pc'[t] # "check" /\ mode[t] \in {"S", "IS"}
           /\ cntX(state[tgt[t]]) = 0)
          => pc'[t] = "reg_load"]_vars

\* C24 witness: XLock is blocked because S is held, and an ISLock caller that
\* locked m.mtx after the writer began to wait has registered without waiting.
C24_Witness ==
  \E u \in Threads, v \in Threads, t \in Threads :
    /\ Waiting(u, "X")
    /\ Holds(v, "S")
    /\ pc[t] = "mtx_unlock" /\ mode[t] = "IS" /\ ~waited[t]
    /\ cntS(state[1]) = 1 /\ cntIS(state[1]) = 1

\* C25: an MLock that returns, on a word whose M counter is below maxHolders,
\* leaves the M counter one higher and the other three counters as they were.
C25_AcquireAddsOne ==
  (last.op = "lock" /\ cnt(last.mode, last.prev) < maxHolders)
  => /\ cnt(last.mode, state[1]) = cnt(last.mode, last.prev) + 1
     /\ \A M \in Modes \ {last.mode} : cnt(M, state[1]) = cnt(M, last.prev)

\* C25 witness: ISLock on a word with IS = 1 and S and IX full has made
\* IS = 2 and left S and IX full.
C25_Witness ==
  /\ last.op = "lock" /\ last.mode = "IS"
  /\ cntIS(last.prev) = 1 /\ cntIS(state[1]) = 2
  /\ cntS(state[1]) = maxHolders /\ cntIX(state[1]) = maxHolders

\* C26 (as claimed): an MUnlock by a holder of M (the counter is nonzero, or
\* the call before it was the holder's own MLock) leaves the M counter one
\* lower and the other three counters as they were; and an MLock followed at
\* once by the matching MUnlock leaves the word as it was before the MLock.
C26_ReleaseUndoesAcquire ==
  last.op = "unlock" =>
    /\ (cnt(last.mode, last.prev) > 0 \/ last.pair)
       => /\ cnt(last.mode, state[1]) = cnt(last.mode, last.prev) - 1
          /\ \A M \in Modes \ {last.mode} : cnt(M, state[1]) = cnt(M, last.prev)
    /\ last.pair => state[1] = last.base

\* from word w to word w2 the M counter moved by d and no other counter moved
CounterMoved(M, w, w2, d) ==
  /\ cnt(M, w2) = cnt(M, w) + d
  /\ \A K \in Modes \ {M} : cnt(K, w2) = cnt(K, w)

\* C27: no update of the word is lost.  Each registerM that completes raises
\* its counter by exactly one on the word as it is at that instant, each
\* MUnlock that completes lowers its counter by exactly one, whatever the
\* other goroutines did since the load; and the word changes in no other step.
C27_NoLostUpdate ==
  [][/\ \A t \in Threads :
          /\ (pc[t] = "reg_cas" /\ pc'[t] = "mtx_unlock")
             => CounterMoved(mode[t], state[tgt[t]], state'[tgt[t]], 1)
          /\ (pc[t] = "unl_cas" /\ pc'[t] \in {"bcast", "idle"})
             => CounterMoved(mode[t], state[tgt[t]], state'[tgt[t]], -1)
     /\ state' # state =>
          \E t \in Threads :
            \/ pc[t] = "reg_cas" /\ pc'[t] = "mtx_unlock"
            \/ pc[t] = "unl_cas" /\ pc'[t] \in {"bcast", "idle"}]_vars

\* C27 witness: an MUnlock whose CAS failed is about to load again while
\* another goroutine is inside registerM on the same instance.
C27_Witness ==
  \E t \in Threads, u \in Threads :
    /\ pc[t] = "unl_load"
    /\ pc[u] \in {"reg_load", "reg_cas"} /\ tgt[u] = tgt[t]

\* every handler has finished: each Lock has been matched by its Unlock and
\* no goroutine is inside a call
Quiescent == \A t \in Threads : prog[t].hand = "none" /\ pc[t] = "idle"

\* C28: when every Lock has been matched by its Unlock and nobody is inside a
\* call, every instance is as New() made it: the word is 0, m.mtx is free,
\* the notify list is empty, and the check of every mode passes.
C28_QuiescentIsFresh ==
  Quiescent =>
    \A m \in Mutexes :
      /\ state[m] = New.state /\ mtx[m] = New.mtx /\ waiters[m] = New.waiters
      /\ \A M \in Modes : compatableWith(M, state[m])

\* C28 witness: all handlers have finished after every allowed xHandler run
\* has written.
C28_Witness ==
  Quiescent /\ writes = MaxWrites /\ values[Len(values)] = MaxWrites

\* C29: an MUnlock by a holder that leaves its counter nonzero (and so calls
\* no Broadcast) changes the verdict of no mode's compatibility check: no
\* request became compatible by it.
C29_QuietReleaseChangesNoVerdict ==
  (last.op = "unlock" /\ cnt(last.mode, last.prev) > 0 /\ ~last.ret)
  => \A R \in Modes : compatableWith(R, state[1]) = compatableWith(R, last.prev)

\* C29 witness: SUnlock has lowered S from 2 to 1 without a Broadcast, on a
\* word that blocks XLock and IXLock before and after.
C29_Witness ==
  /\ last.op = "unlock" /\ last.mode = "S" /\ ~last.ret
  /\ cntS(last.prev) = 2 /\ cntS(state[1]) = 1
  /\ ~compatableWithX(state[1]) /\ ~compatableWithIX(state[1])

(***************************************************************************)
(* Callers that do not release before they lock again: a goroutine takes   *)
(* MLock on the instance and then, still holding, calls XLock on it.  The  *)
(* other goroutines call Lock and Unlock in pairs, as before.              *)
(***************************************************************************)
\* the goroutine decides to lock in mode H and then to call XLock
UpgradeStart(t, H) ==
  /\ prog[t].hand = "none"
  /\ pc[t] = "idle"
  /\ prog' = [prog EXCEPT ![t] =
                [hand |-> "upgrade", node |-> 1, idx |-> 1, phase |-> "first", held |-> H]]
  /\ UNCHANGED <<state, mtx, waiters, pc, mode, tgt, st, waited, last, calls, coex,
                 values, parent, writes, roles>>

\* m.MLock() of the mode it will hold: the call begins
UpgradeFirstLock(t) ==
  /\ prog[t].hand = "upgrade" /\ prog[t].phase = "first"
  /\ LockMtx(t, prog[t].node, prog[t].held)

\* m.XLock() by the goroutine that still holds its first lock: m.mtx.Lock()
UpgradeXLock(t) ==
  /\ prog[t].hand = "upgrade" /\ prog[t].phase = "first"
  /\ pc[t] = "held"
  /\ mtx[tgt[t]] = NoThread
  /\ mtx' = [mtx EXCEPT ![tgt[t]] = t]
  /\ pc' = [pc EXCEPT ![t] = "check"]
  /\ mode' = [mode EXCEPT ![t] = "X"]
  /\ waited' = [waited EXCEPT ![t] = FALSE]
  /\ prog' = [prog EXCEPT ![t].phase = "second"]
  /\ UNCHANGED <<state, waiters, tgt, st, last, calls, coex, values, parent, writes, roles>>

\* m.MLock() by a goroutine that holds nothing
PlainLock(t) ==
  /\ prog[t].hand = "none"
  /\ \E m \in Mutexes, M \in Modes : LockMtx(t, m, M)

\* m.MUnlock() by a goroutine that holds one lock and is in no other call
PlainUnlock(t) ==
  /\ prog[t].hand = "none"
  /\ UnlockLoad(t)

UpgradeNext ==
  \E t \in Threads :
    \/ \E H \in Modes : UpgradeStart(t, H)
    \/ UpgradeFirstLock(t)
    \/ UpgradeXLock(t)
    \/ PlainLock(t)
    \/ LockCheck(t)
    \/ CondWait(t)
    \/ CondWake(t)
    \/ RegisterLoad(t)
    \/ RegisterCAS(t)
    \/ LockMtxUnlock(t)
    \/ PlainUnlock(t)
    \/ UnlockCAS(t)
    \/ UnlockBroadcast(t)

\* IX holders among the goroutines that take no step in the run: none, or
\* as many as the IX counter can count
SilentIXHolders == {0, maxHolders}

\* New(), then the silent holders' IXLock calls have returned
UpgradeInit ==
  /\ \E n \in SilentIXHolders : state = [m \in {1} |-> setIX(New.state, <<n, 0, 0, 0>>)]
  /\ mtx = [m \in {1} |-> New.mtx]
  /\ waiters = [m \in {1} |-> New.waiters]
  /\ pc = [t \in 1..NumThreads |-> "idle"]
  /\ mode = [t \in 1..NumThreads |-> NoMode]
  /\ tgt = [t \in 1..NumThreads |-> 1]
  /\ st = [t \in 1..NumThreads |-> Zero64]
  /\ waited = [t \in 1..NumThreads |-> FALSE]
  /\ last = NoLast
  /\ calls = 0
  /\ coex = 0
  /\ prog = [t \in 1..NumThreads |-> NoProg]
  /\ values = <<>>
  /\ parent = [m \in {1} |-> 0]
  /\ writes = 0
  /\ roles = [t \in 1..NumThreads |-> Modes]

UpgradeSpec == UpgradeInit /\ [][UpgradeNext]_vars

\* t holds a lock on the instance and is inside XLock on the same instance
Upgrading(t) == prog[t].hand = "upgrade" /\ prog[t].phase = "second"

\* C30 (as claimed): a goroutine that holds S, IS, IX or X on an instance and
\* calls XLock on it without releasing never gets past XLock's compatibility
\* check: its own registration stays counted in the word, so the word is never
\* 0 and the goroutine never registers X or returns.
C30_UpgradeNeverReturns ==
  \A t \in Threads :
    Upgrading(t) =>
      /\ pc[t] \in {"check", "wait", "waiting", "woken"}
      /\ mode[t] = "X"
      /\ cnt(prog[t].held, state[tgt[t]]) >= 1
      /\ ~compatableWithX(state[tgt[t]])


\* the positions of a goroutine inside MLock, from m.mtx.Lock() to the
\* m.mtx.Unlock() that precedes the return
InLock == {"check", "wait", "waiting", "woken", "reg_load", "reg_cas", "mtx_unlock"}

\* C31: a Lock call never fails because of contention.  From any position
\* inside MLock the caller's next position is again inside MLock (it waits,
\* is woken, checks again, registers) or is the return, holding the mode; the
\* call leaves registerM only through the compare-and-swap that stores the
\* word with M's counter incremented for this caller, and the return follows
\* that store.
C31_LockNeverFails ==
  [][\A t \in Threads :
       /\ (pc[t] \in InLock /\ pc'[t] # pc[t]) => pc'[t] \in InLock \cup {"held"}
       /\ (pc'[t] = "held" /\ pc[t] # "held") =>
            pc[t] = "mtx_unlock" /\ mode'[t] = mode[t] /\ mode[t] \in Modes
       /\ (pc'[t] = "mtx_unlock" /\ pc[t] # "mtx_unlock") =>
            /\ pc[t] = "reg_cas"
            /\ state'[tgt[t]] = registerNewState(mode[t], state[tgt[t]])
            /\ cnt(mode[t], state'[tgt[t]]) = cnt(mode[t], state[tgt[t]]) + 1]_vars

\* C31 witness: a caller that met contention (it waited inside its Lock call)
\* has returned and holds its mode, counted once in the word.
C31_Witness ==
  \E t \in Threads :
    /\ pc[t] = "held" /\ waited[t]
    /\ cnt(mode[t], state[tgt[t]]) = 1

(***************************************************************************)
(* TestDrainReads (part_003 327-393): the main goroutine takes X on a new  *)
(* Mutex, starts the readers (SLock, ch <- Read, SUnlock) and the writers  *)
(* (XLock, ch <- Write, XUnlock), waits for all of them to have started,   *)
(* sleeps, and calls XUnlock.  `values` is the channel ch.                 *)
(***************************************************************************)
DrainMain == 1
DrainThreads == 1 .. (1 + DrainReaders + DrainWriters)
Readers == {t \in Threads : prog[t].hand = "reader"}
Writers == {t \in Threads : prog[t].hand = "writer"}

\* mtx := New(); mtx.XLock(); the goroutines are created
DrainInit ==
  /\ state = [m \in {1} |-> registerNewState("X", New.state)]
  /\ mtx = [m \in {1} |-> New.mtx]
  /\ waiters = [m \in {1} |-> New.waiters]
  /\ pc = [t \in DrainThreads |-> IF t = DrainMain THEN "held" ELSE "idle"]
  /\ mode = [t \in DrainThreads |-> IF t = DrainMain THEN "X" ELSE NoMode]
  /\ tgt = [t \in DrainThreads |-> 1]
  /\ st = [t \in DrainThreads |-> Zero64]
  /\ waited = [t \in DrainThreads |-> FALSE]
  /\ last = NoLast
  /\ calls = 0
  /\ coex = 0
  /\ prog = [t \in DrainThreads |->
               [hand |-> IF t = DrainMain THEN "main"
                         ELSE IF t <= 1 + DrainReaders THEN "reader" ELSE "writer",
                node |-> 1, idx |-> 1, phase |-> "spawned"]]
  /\ values = <<>>
  /\ parent = [m \in {1} |-> 0]
  /\ writes = 0
  /\ roles = [t \in DrainThreads |->
                IF t = DrainMain \/ t > 1 + DrainReaders THEN {"X"} ELSE {"S"}]

\* wg.Done(): the goroutine has started and is about to call its Lock
DrainDone(t) ==
  /\ prog[t].hand \in {"reader", "writer"} /\ prog[t].phase = "spawned"
  /\ prog' = [prog EXCEPT ![t].phase = "start"]
  /\ UNCHANGED <<state, mtx, waiters, pc, mode, tgt, st, waited, last, calls, coex,
                 values, parent, writes, roles>>

\* mtx.SLock() of a reader, mtx.XLock() of a writer: the call begins
DrainLock(t) ==
  /\ prog[t].hand \in {"reader", "writer"} /\ prog[t].phase = "start"
  /\ RoleLock(t)

\* ch <- Read, ch <- Write: the goroutine holds its lock and reports
DrainSend(t) ==
  /\ prog[t].hand \in {"reader", "writer"} /\ prog[t].phase = "start"
  /\ pc[t] = "held"
  /\ values' = Append(values, IF prog[t].hand = "reader" THEN "Read" ELSE "Write")
  /\ prog' = [prog EXCEPT ![t].phase = "sent"]
  /\ UNCHANGED <<state, mtx, waiters, pc, mode, tgt, st, waited, last, calls, coex,
                 parent, writes, roles>>

\* mtx.SUnlock(), mtx.XUnlock() of the goroutine that has reported
DrainUnlock(t) ==
  /\ prog[t].hand \in {"reader", "writer"} /\ prog[t].phase = "sent"
  /\ UnlockLoad(t)

\* wg.Wait(); time.Sleep(5 * time.Millisecond): every goroutine has called
\* wg.Done(); when the sleep ends they are all blocked in their Lock calls
\* ("primed") or some of them are not yet
MainSleep(t) ==
  /\ prog[t].hand = "main" /\ prog[t].phase = "spawned"
  /\ \A u \in Threads \ {t} : prog[u].phase # "spawned"
  /\ prog' = [prog EXCEPT ![t].phase =
                IF \A u \in Threads \ {t} : pc[u] = "waiting" THEN "primed" ELSE "unprimed"]
  /\ UNCHANGED <<state, mtx, waiters, pc, mode, tgt, st, waited, last, calls, coex,
                 values, parent, writes, roles>>

\* mtx.XUnlock() of the main goroutine
MainUnlock(t) ==
  /\ prog[t].hand = "main" /\ prog[t].phase \in {"primed", "unprimed"}
  /\ UnlockLoad(t)

DrainNext ==
  \E t \in Threads :
    \/ DrainDone(t)
    \/ DrainLock(t)
    \/ LockCheck(t)
    \/ CondWait(t)
    \/ CondWake(t)
    \/ RegisterLoad(t)
    \/ RegisterCAS(t)
    \/ LockMtxUnlock(t)
    \/ DrainSend(t)
    \/ DrainUnlock(t)
    \/ MainSleep(t)
    \/ MainUnlock(t)
    \/ UnlockCAS(t)
    \/ UnlockBroadcast(t)

DrainSpec == DrainInit /\ [][DrainNext]_vars

\* the writer has got past XLock's compatibility check
Proceeded(w) ==
  \/ pc[w] \in {"reg_load", "reg_cas", "mtx_unlock", "held", "unl_load", "unl_cas", "bcast"}
  \/ prog[w].phase = "sent"

\* the reader has acquired S, reported and released it
Processed(r) == prog[r].phase = "sent" /\ pc[r] = "idle"

NotRegistered(r) ==
  \/ pc[r] \in {"woken", "check", "wait", "waiting", "bcast"}
  \/ Processed(r)

C33_RegisterUnconditional ==
  last.op = "register" =>
    /\ state[1] = registerNewState(last.mode, last.prev)
    /\ cnt(last.mode, state[1]) = (cnt(last.mode, last.prev) + 1) % LimbBase
    /\ last.ret = compatableWith(last.mode, last.prev)
    /\ (~compatableWith(last.mode, last.prev)) =>
         ~last.ret /\ state[1] # last.prev

\* C33 witness: two consecutive registerX calls on a new Mutex have returned
\* true and then false, and the X counter is 2.
C33_Witness ==
  /\ last.op = "register" /\ last.mode = "X"
  /\ last.pair /\ last.base = New.state
  /\ ~last.ret
  /\ state[1] = <<2, 0, 0, 0>>

\* the four counters of w packed again, field by field, onto the word 0
Repack(w) ==
  setIX(setIS(setS(setX(Zero64, extractX(w)), extractS(w)), extractIS(w)), extractIX(w))

\* C34: the four fields are disjoint 16-bit ranges that cover the word, X in
\* bits 0-15, S in bits 16-31, IS in bits 32-47 and IX in bits 48-63: packing
\* the four counters extracted from a word onto 0 with setX, setS, setIS and
\* setIX gives the word back, and the word is 0 exactly when its four
\* counters are 0.
C34_FieldsPartitionWord ==
  /\ xMask = <<LimbMax, 0, 0, 0>> /\ sMask = <<0, LimbMax, 0, 0>>
  /\ isMask = <<0, 0, LimbMax, 0>> /\ ixMask = <<0, 0, 0, LimbMax>>
  /\ \A a \in {xMask, sMask, isMask, ixMask} :
       \A b \in {xMask, sMask, isMask, ixMask} \ {a} : And64(a, b) = Zero64
  /\ Or64(Or64(xMask, sMask), Or64(isMask, ixMask)) = AllOnes64
  /\ \A m \in Mutexes :
       /\ Repack(state[m]) = state[m]
       /\ \A M \in Modes : extract(M, state[m]) = U64(cnt(M, state[m]))
       /\ (state[m] = Zero64) <=> (\A M \in Modes : cnt(M, state[m]) = 0)

\* C34 witness: a set call has left a word with X, IS and IX nonzero and S
\* zero; its counters are 43690, 0, 65535 and 1 and packing them gives it back.
C34_Witness ==
  /\ last.op = "set"
  /\ cntX(state[1]) = 43690 /\ cntS(state[1]) = 0
  /\ cntIS(state[1]) = maxHolders /\ cntIX(state[1]) = 1
  /\ Repack(state[1]) = state[1] /\ state[1] # Zero64
====
